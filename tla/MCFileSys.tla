----------------------------- MODULE MCFileSys -----------------------------
(* Two processes, two inodes besides the root, two names: a directory b, and *)
(* a file made in it and linked into the root.                               *)
EXTENDS FileSys, TLC
C(op, path) == [op |-> op, path |-> path, to |-> <<>>, abs |-> TRUE]
R(op, path) == [op |-> op, path |-> path, to |-> <<>>, abs |-> FALSE]
L(path, to) == [op |-> "link", path |-> path, to |-> to, abs |-> TRUE]
MCCalls ==
  { C("mkdir", <<"b">>), C("mkdir", <<>>), C("creat", <<"b", "a">>), L(<<"b", "a">>, <<"a">>),
    L(<<"b">>, <<"a">>), C("unlink", <<"b", "..">>), C("unlink", <<"a">>), C("unlink", <<"b">>), C("unlink", <<"b", "a">>),
    C("openw", <<"a">>), C("open", <<"b">>), C("chdir", <<"b">>), R("chdir", <<"..">>) }
(* A directory below another, and a process that stays in it. *)
RmdirCalls ==
  { C("mkdir", <<"b">>), C("mkdir", <<"b", "b">>), C("chdir", <<"b", "b">>),
    C("unlink", <<"b", "b">>), C("unlink", <<"b">>), R("chdir", <<"..">>) }
Symmetry == Permutations(Process)
=============================================================================
