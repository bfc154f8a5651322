------------------------------ MODULE MCJudging ------------------------------
(* Judging on small sets of goroutines and solutions.  The Sids have the   *)
(* same number of digits, so that a torn read of z.workdir is one of the   *)
(* two paths.                                                              *)
EXTENDS Judging, TLC

Solution(p, u, m, o) == [problem |-> p, user |-> u, module |-> m, outcome |-> o]
Request(s, oj) == [sid |-> s, oj |-> oj]

\* One after the other: practice and contest solutions of two users, one that
\* does not compile, one of a problem without tests, one for a judger that is
\* not there, and one that is not in the database.
SerialStored ==
  11 :> Solution(1, "ann", "P", "AC") @@ 12 :> Solution(1, "ann", "C", "AC")
  @@ 13 :> Solution(1, "bob", "C", "AC") @@ 14 :> Solution(2, "ann", "P", "CE")
  @@ 15 :> Solution(2, "bob", "P", "AC")
SerialInfo ==
  1 :> Request(11, "ZJGSU") @@ 2 :> Request(13, "") @@ 3 :> Request(14, "ZJGSU")
  @@ 4 :> Request(15, "ZJGSU") @@ 5 :> Request(12, "other")
  @@ 6 :> Request(99, "ZJGSU")

\* Two at a time.
PairStored == 11 :> Solution(1, "ann", "C", "AC") @@ 12 :> Solution(1, "bob", "C", "WA")
PairInfo == 1 :> Request(11, "ZJGSU") @@ 2 :> Request(12, "ZJGSU")

Copied == {<<12, 11>>, <<13, 11>>, <<13, 12>>}
CopiedOnce == {<<12, 11>>}
=============================================================================
