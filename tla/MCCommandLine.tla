--------------------------- MODULE MCCommandLine ---------------------------
(* CommandLine with up to three options and a small file system.           *)
EXTENDS CommandLine, TLC

Option(l) == [letter |-> l, value |-> <<>>]
Valued(l, v) == [letter |-> l, value |-> v]

All == {Option(l) : l \in {"p", "P", "d", "R", "i", "v", "-", "x"}}
         \cup {Valued("r", <<"24">>), Valued("w", <<"-", "2">>),
               Valued("t", <<"50">>), Valued("t", <<"101">>), Valued("o", <<"b">>)}
AllOptions == BoundedSeq(All, 2)
                \cup {<<Option("p"), Option("s"), Valued("t", <<"2">>)>>,
                      <<Valued("r", <<"0">>), Option("s")>>,
                      <<Option("R"), Valued("o", <<"d">>), Option("i")>>}

AllArguments == {<<>>, <<<<"d", "/", "/">>>>, <<<<"e">>, <<"|">>, <<"b">>, <<"x">>>>,
                 <<<<"d">>, <<"/">>, <<"a">>>>}
AllInputs == {<<>>, <<<<>>>>, <<<<"a">>>>, <<<<>>, <<"b">>, <<>>, <<"/">>, <<"d">>>>}

\* a, b and d/a are files, e is a file system of its own, d/d is d again, d/u
\* cannot be read and a file in e
\* has a newline for a name.
Small == [kind |-> "cwd" :> "dir" @@ "a" :> "file" @@ "b" :> "file" @@ "d" :> "dir"
                   @@ "e" :> "dir" @@ "u" :> "dir" @@ "c" :> "empty" @@ "g" :> "file",
          dev |-> [f \in {"cwd", "a", "b", "c", "d", "e", "g", "u"} |-> IF f = "e" THEN 1 ELSE 0],
          shut |-> {"u"},
          entry |-> "cwd" :> ("a" :> "a" @@ "b" :> "b" @@ "d" :> "d" @@ "e" :> "e")
                    @@ "d" :> ("a" :> "g" @@ "d" :> "d" @@ "c" :> "c" @@ "u" :> "u")
                    @@ "e" :> ("a" :> "g" @@ NL :> "g") @@ "u" :> ("b" :> "b")]

AllTrees == {Small}
=============================================================================
