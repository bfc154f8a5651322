------------------------------ MODULE MCRunner ------------------------------
(* Runner on two tests and a file that is none.  "exec" is allowed once    *)
(* and "time" twice, as in okcalls.h, "read" without limit, "fork" never.  *)
EXTENDS Runner, TLC

CallLimit == "exec" :> 1 @@ "time" :> 2 @@ "read" :> Unlimited @@ "fork" :> 0
=============================================================================
