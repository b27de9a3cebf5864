---------------------------- MODULE ShellSyntax ----------------------------
(***************************************************************************)
(* The commands of the shell (user/sh.c), and its parser on lines of       *)
(* tokens.  A syntax error is a part Bad of what is parsed.                *)
(***************************************************************************)
EXTENDS Integers, Sequences, SequencesExt

CONSTANTS Word, MAXARGS

Exec(argv) == [type |-> "EXEC", argv |-> argv]
Redir(cmd, mode, file) == [type |-> "REDIR", cmd |-> cmd, mode |-> mode, file |-> file]
Pair(type, left, right) == [type |-> type, left |-> left, right |-> right]
Back(cmd) == [type |-> "BACK", cmd |-> cmd]
Bad == [type |-> "BAD"]

Redirs == {"<", ">", ">>"}

(* A parser's result: what it has parsed, and where the next token is.      *)
Got(cmd, i) == [cmd |-> cmd, at |-> i]
Tok(line, i) == IF i <= Len(line) THEN line[i] ELSE ""

(* parseredirs() wraps: the last redirection is the outermost.              *)
Wrapped(cmd, redirs) == FoldLeft(LAMBDA c, x : Redir(c, x[1], x[2]), cmd, redirs)

RECURSIVE ParseLine(_, _), ParsePipe(_, _), ParseExec(_, _), ParseRedirs(_, _), ParseBacks(_, _),
          ParseWords(_, _, _, _)

ParseRedirs(line, b) ==
  CASE Tok(line, b.at) \notin Redirs -> b
    [] Tok(line, b.at + 1) \notin Word -> Got(Bad, b.at + 1)
    [] OTHER -> ParseRedirs(line, Got(Redir(b.cmd, line[b.at], line[b.at + 1]), b.at + 2))

ParseWords(line, i, argv, redirs) ==
  LET t == Tok(line, i) IN
  CASE t \in Redirs /\ Tok(line, i + 1) \in Word ->
         ParseWords(line, i + 2, argv, Append(redirs, <<t, line[i + 1]>>))
    [] t \in Word /\ Len(argv) + 1 < MAXARGS -> ParseWords(line, i + 1, Append(argv, t), redirs)
    [] t \in {"|", ")", "&", ";", ""} -> Got(Wrapped(Exec(argv), redirs), i)
    [] OTHER -> Got(Bad, i + 1)

(* A block, or a program with its arguments. *)
ParseExec(line, i) ==
  IF Tok(line, i) # "(" THEN ParseWords(line, i, <<>>, <<>>)
  ELSE LET b == ParseLine(line, i + 1)
       IN IF Tok(line, b.at) = ")" THEN ParseRedirs(line, Got(b.cmd, b.at + 1)) ELSE Got(Bad, b.at)

ParsePipe(line, i) ==
  LET l == ParseExec(line, i)
      r == ParsePipe(line, l.at + 1)
  IN IF Tok(line, l.at) = "|" THEN Got(Pair("PIPE", l.cmd, r.cmd), r.at) ELSE l

ParseBacks(line, b) ==
  IF Tok(line, b.at) = "&" THEN ParseBacks(line, Got(Back(b.cmd), b.at + 1)) ELSE b

ParseLine(line, i) ==
  LET l == ParseBacks(line, ParsePipe(line, i))
      r == ParseLine(line, l.at + 1)
  IN IF Tok(line, l.at) = ";" THEN Got(Pair("LIST", l.cmd, r.cmd), r.at) ELSE l

RECURSIVE HasBad(_)
HasBad(c) ==
  CASE c.type = "BAD" -> TRUE
    [] c.type = "EXEC" -> FALSE
    [] c.type \in {"REDIR", "BACK"} -> HasBad(c.cmd)
    [] OTHER -> HasBad(c.left) \/ HasBad(c.right)

(* parsecmd(): the whole line or none of it. *)
Parse(line) ==
  LET b == ParseLine(line, 1)
  IN IF b.at <= Len(line) \/ HasBad(b.cmd) THEN Bad ELSE b.cmd

-----------------------------------------------------------------------------
(* The grammar the other way round: the line that means a command.  What    *)
(* binds less than its place allows stands in parentheses.                  *)

Binds(c) == CASE c.type = "LIST" -> 0 [] c.type = "BACK" -> 1 [] c.type = "PIPE" -> 2 [] OTHER -> 3

RECURSIVE Text(_, _)
Text(c, place) ==
  IF Binds(c) < place THEN <<"(">> \o Text(c, 0) \o <<")">>
  ELSE CASE c.type = "EXEC" -> c.argv
         [] c.type = "REDIR" -> Text(c.cmd, 3) \o <<c.mode, c.file>>
         [] c.type = "BACK" -> Text(c.cmd, 1) \o <<"&">>
         [] c.type = "PIPE" -> Text(c.left, 3) \o <<"|">> \o Text(c.right, 2)
         [] c.type = "LIST" -> Text(c.left, 1) \o <<";">> \o Text(c.right, 0)
=============================================================================
