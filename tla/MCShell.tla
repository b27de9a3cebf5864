------------------------------ MODULE MCShell ------------------------------
EXTENDS ShellMeaning

X(w) == Exec(<<w>>)
MCLines ==
  { Pair("PIPE", X("e1"), Pair("PIPE", X("c1"), X("c2"))),
    Pair("LIST", Pair("PIPE", X("e1"), X("c1")), X("e2")),
    Pair("LIST", Back(Pair("PIPE", X("e1"), X("c1"))), X("c2")),
    Pair("PIPE", Redir(Pair("LIST", X("e1"), X("e2")), "<", "f"), Redir(X("c1"), ">", "f")),
    Pair("PIPE", Redir(Redir(Exec(<<"e1", "f">>), ">", "f"), ">>", "g"), X("c1")),
    Pair("PIPE", Back(X("e1")), Pair("LIST", Exec(<<>>), X("c1"))),
    Pair("PIPE", X("e1"), Pair("PIPE", X("c1"), Pair("PIPE", X("c2"), X("e2")))),
    Pair("LIST", Back(X("e1")), Pair("PIPE", X("e2"), X("c2"))),
    Back(Back(X("f"))),
    Exec(<<"e1", "f", "g">>),
    X("g") }
=============================================================================
