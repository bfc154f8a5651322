----------------------------- MODULE MCRunServer -----------------------------
(* Two requests on their way through the whole server, both for solutions  *)
(* of a contest, of which the later one is copied from the earlier one.    *)
EXTENDS RunServer, TLC

Solution(p, u, m, o) == [problem |-> p, user |-> u, module |-> m, outcome |-> o]

ServerStored ==
  11 :> Solution(1, "ann", "C", "AC") @@ 12 :> Solution(1, "bob", "C", "AC")
TwoInfo == 1 :> [sid |-> 11, oj |-> "ZJGSU"] @@ 2 :> [sid |-> 12, oj |-> "ZJGSU"]

CopiedOnce == {<<12, 11>>}
=============================================================================
